---------------------------- MODULE Spec2Model ----------------------------
(***************************************************************************)
(* ResNeSt (ppcls/modeling/architectures/resnest.py) as a state machine.   *)
(*                                                                         *)
(* A tensor is modelled by its shape [c, h, w] (the batch axis is carried  *)
(* through unchanged by every operation and is left out); a layer object   *)
(* is a record of the attributes its __init__ assigns.  The numerical      *)
(* kernels belong to the external runtime: of them only the shape          *)
(* arithmetic (ConvOut, PoolOut) and the argument checks that raise are    *)
(* modelled.  The split-attention data flow is modelled a second time at   *)
(* the level of single channels (section "split attention, per channel").  *)
(***************************************************************************)
EXTENDS Integers, Sequences, FiniteSets, TLC

VARIABLES
    pc,     \* position of the driver: "new", a forward position, "done", "raised"
    cfg,    \* the constructor arguments (and the input size) of this run
    obj,    \* the object under construction / constructed
    x,      \* the value flowing through forward
    trace   \* the sublayer calls forward has made, in order

vars == <<pc, cfg, obj, x, trace>>

----------------------------------------------------------------------------
(* Bounds of the model.                                                    *)

MaxBlocks == 2      \* stage depths 1..MaxBlocks (besides the exported [3,4,6,3])
MaxSize == 9        \* input heights 1..MaxSize of a whole-network forward
MaxExportedSize == 40   \* input heights of a forward of an exported model
MaxWidth == 2       \* input widths 1..MaxWidth
MaxBlockSize == 5   \* input heights and widths of a single-block forward
MaxCard == 2        \* cardinality 1..MaxCard in the per-channel model
MaxRadix == 3       \* radix 1..MaxRadix in the per-channel model
MaxPlanes == 3      \* planes 1..MaxPlanes in the per-channel model

----------------------------------------------------------------------------
(* Values shared by all layers.                                            *)

Absent == [kind |-> "absent"]          \* an attribute __init__ never assigned

Max(a, b) == IF a >= b THEN a ELSE b

Range(seq) == {seq[j] : j \in 1..Len(seq)}

Shape(c, h, w) == [c |-> c, h |-> h, w |-> w]

\* Conv2D output extent along one axis (runtime's shape rule).
ConvOut(h, k, s, p, d) == (h + 2 * p - (d * (k - 1) + 1)) \div s + 1

\* Pool2D output extent along one axis (runtime's shape rule; ceil_mode
\* rounds the division up).
PoolOut(h, k, s, p, ceil) ==
    IF ceil THEN (h - k + 2 * p + s - 1) \div s + 1
            ELSE (h - k + 2 * p) \div s + 1

Conv2D(num_channels, num_filters, filter_size, stride, padding, dilation, groups, pname) ==
    [kind |-> "Conv2D", num_channels |-> num_channels,
     num_filters |-> num_filters, filter_size |-> filter_size,
     stride |-> stride, padding |-> padding, dilation |-> dilation,
     groups |-> groups, params |-> {pname}]

BatchNorm(num_channels, act, name) ==
    [kind |-> "BatchNorm", num_channels |-> num_channels, act |-> act,
     params |-> {name \o "_scale", name \o "_offset", name \o "_mean",
                 name \o "_variance"}]

Pool2D(pool_size, pool_stride, pool_padding, pool_type, ceil_mode) ==
    [kind |-> "Pool2D", pool_size |-> pool_size, pool_stride |-> pool_stride,
     pool_padding |-> pool_padding, pool_type |-> pool_type,
     ceil_mode |-> ceil_mode, global_pooling |-> FALSE]

GlobalPool2D(pool_type) ==
    [kind |-> "Pool2D", pool_size |-> -1, pool_stride |-> 1,
     pool_padding |-> 0, pool_type |-> pool_type, ceil_mode |-> FALSE,
     global_pooling |-> TRUE]

\* A value that raised: forward stops there.
Raised(err) == [err |-> err]

IsRaised(v) == "err" \in DOMAIN v

\* Conv2D.__call__: the runtime rejects an input whose channel count is not
\* the declared num_channels.
Conv2DForward(conv, t) ==
    IF IsRaised(t) THEN t
    ELSE IF t.c # conv.num_channels THEN Raised("ChannelMismatch")
    ELSE Shape(conv.num_filters,
               ConvOut(t.h, conv.filter_size, conv.stride, conv.padding,
                       conv.dilation),
               ConvOut(t.w, conv.filter_size, conv.stride, conv.padding,
                       conv.dilation))

BatchNormForward(bn, t) ==
    IF IsRaised(t) THEN t
    ELSE IF t.c # bn.num_channels THEN Raised("ChannelMismatch")
    ELSE t

Pool2DForward(pool, t) ==
    IF IsRaised(t) THEN t
    ELSE IF pool.global_pooling THEN Shape(t.c, 1, 1)
    ELSE Shape(t.c,
               PoolOut(t.h, pool.pool_size, pool.pool_stride,
                       pool.pool_padding, pool.ceil_mode),
               PoolOut(t.w, pool.pool_size, pool.pool_stride,
                       pool.pool_padding, pool.ceil_mode))

----------------------------------------------------------------------------
(* class ConvBNLayer                                                       *)

ConvBNLayer(num_channels, num_filters, filter_size, stride, dilation, groups, act, name) ==
    [kind |-> "ConvBNLayer",
     conv |-> Conv2D(num_channels, num_filters, filter_size, stride,
                     (filter_size - 1) \div 2, dilation, groups,
                     name \o "_weight"),
     batch_norm |-> BatchNorm(num_filters, act, name)]

ConvBNLayerForward(l, t) == BatchNormForward(l.batch_norm, Conv2DForward(l.conv, t))

----------------------------------------------------------------------------
(* class rSoftmax and class SplatConv, on shapes                           *)

rSoftmax(radix, cardinality) ==
    [kind |-> "rSoftmax", radix |-> radix, cardinality |-> cardinality]

\* int(r * h * w / cardinality / radix): two true divisions and a truncation.
\* The quotient is a rational with denominator at most cardinality * radix, so
\* the float result truncates to the integer quotient.
RSoftmaxInner(r, h, w, cardinality, radix) == (r * h * w) \div (cardinality * radix)

\* rSoftmax.forward on a shape.  With radix > 1 the result is the 2-D tensor
\* [batch, r*h*w], written here as c = r*h*w, h = w = 1; paddle.reshape
\* raises when the target shape does not hold the same number of elements.
rSoftmaxForward(rs, t) ==
    IF IsRaised(t) THEN t
    ELSE IF rs.radix > 1
         THEN LET inner == RSoftmaxInner(t.c, t.h, t.w, rs.cardinality, rs.radix)
              IN IF rs.cardinality * rs.radix * inner # t.c * t.h * t.w
                 THEN Raised("ReshapeMismatch")
                 ELSE Shape(t.c * t.h * t.w, 1, 1)
         ELSE t

SplatConv(in_channels, channels, kernel_size, stride, padding, dilation, groups, radix, name) ==
    LET inter_channels == Max((in_channels * radix) \div 4, 32)
    IN [kind |-> "SplatConv", radix |-> radix,
        conv1 |-> ConvBNLayer(in_channels, channels * radix, kernel_size,
                              stride, 1, groups * radix, "relu",
                              name \o "_splat1"),
        avg_pool2d |-> GlobalPool2D("avg"),
        conv2 |-> ConvBNLayer(channels, inter_channels, 1, 1, 1, groups,
                              "relu", name \o "_splat2"),
        conv3 |-> Conv2D(inter_channels, channels * radix, 1, 1, 0, 1, groups,
                         name \o "_splat_weights"),
        rsoftmax |-> rSoftmax(radix, groups)]

\* paddle.split(t, num_or_sections = n, axis = 1): n equal chunks.
SplitShape(t, n) ==
    IF IsRaised(t) THEN t
    ELSE IF t.c % n # 0 THEN Raised("SplitMismatch")
    ELSE Shape(t.c \div n, t.h, t.w)

\* att * split: the [c,1,1] weights broadcast over the [c,h,w] features.
GateShape(att, feat) ==
    IF IsRaised(att) THEN att
    ELSE IF IsRaised(feat) THEN feat
    ELSE IF att.c # feat.c THEN Raised("ChannelMismatch")
    ELSE feat

SplatConvForward(s, t) ==
    LET x1 == ConvBNLayerForward(s.conv1, t)
        splited == IF s.radix > 1 THEN SplitShape(x1, s.radix) ELSE x1
        gap1 == Pool2DForward(s.avg_pool2d, splited)
        gap2 == ConvBNLayerForward(s.conv2, gap1)
        atten1 == Conv2DForward(s.conv3, gap2)
        atten2 == rSoftmaxForward(s.rsoftmax, atten1)
        attens == IF s.radix > 1 THEN SplitShape(atten2, s.radix) ELSE atten2
    IN GateShape(attens, splited)

----------------------------------------------------------------------------
(* class BottleneckBlock                                                   *)

\* int(planes * (bottleneck_width / 64.)) * cardinality.  bottleneck_width/64.
\* is exact in binary floating point, and so is the product for the sizes
\* used here, so the truncation is the integer quotient.
group_widthUngrouped(planes, bottleneck_width, cardinality) == (planes * bottleneck_width) \div 64

group_width(planes, bottleneck_width, cardinality) == ((planes * bottleneck_width) \div 64) * cardinality

\* "avd and avd_first and (stride > 1 or is_first)" in __init__ (line 223)
MakesAvdFirst(a) == a.avd /\ a.avd_first /\ (a.stride > 1 \/ a.is_first)

\* "avd and avd_first == False and (stride > 1 or is_first)" in __init__ (line 254)
MakesAvdLast(a) == a.avd /\ a.avd_first = FALSE /\ (a.stride > 1 \/ a.is_first)

\* "stride != 1 or self.inplanes != self.planes * 4" in __init__ (line 270)
MakesShortcutStrideOnly(a) == a.stride # 1

MakesShortcut(a) == a.stride # 1 \/ a.inplanes # a.planes * 4

\* avg_pool2d_1 / avg_pool2d_2
AvdPool(stride) == Pool2D(3, stride, 1, "avg", FALSE)

ShortcutPoolFloor(stride, dilation) == IF dilation = 1 THEN Pool2D(stride, stride, 0, "avg", FALSE) ELSE Pool2D(1, 1, 0, "avg", FALSE)

\* avg_pool2d_3
ShortcutPool(stride, dilation) == IF dilation = 1 THEN Pool2D(stride, stride, 0, "avg", TRUE) ELSE Pool2D(1, 1, 0, "avg", TRUE)

\* conv4
ShortcutConv(a) ==
    IF a.avg_down
    THEN Conv2D(a.inplanes, a.planes * 4, 1, 1, 0, 1, 1, a.name \o "_weights")
    ELSE Conv2D(a.inplanes, a.planes * 4, 1, a.stride, 0, 1, 1,
                a.name \o "_shortcut_weights")

\* conv2 of a block: the split-attention convolution when radix >= 1.  The
\* other branch reads the name "dialtion", which is bound nowhere (not a
\* parameter, a local, a module global or a builtin): evaluating the call's
\* arguments raises NameError and conv2 is never assigned.
BlockConv2(a, gw) ==
    IF a.radix >= 1
    THEN SplatConv(gw, gw, 3, 1, a.dilation, a.dilation, a.cardinality,
                   a.radix, a.name \o "_splatconv")
    ELSE Raised("NameError")

\* BottleneckBlock.__init__: the object as the constructor leaves it, with
\* status "ok", or with the exception it raised and the attributes assigned
\* until then.
BottleneckBlock(a) ==
    LET gw == group_width(a.planes, a.bottleneck_width, a.cardinality)
        conv2 == BlockConv2(a, gw)
        ok == ~IsRaised(conv2)
    IN [kind |-> "BottleneckBlock",
        status |-> IF ok THEN "ok" ELSE conv2.err,
        inplanes |-> a.inplanes, planes |-> a.planes, stride |-> a.stride,
        radix |-> a.radix, cardinality |-> a.cardinality, avd |-> a.avd,
        avd_first |-> a.avd_first, dilation |-> a.dilation,
        is_first |-> a.is_first, avg_down |-> a.avg_down,
        conv1 |-> ConvBNLayer(a.inplanes, gw, 1, 1, 1, 1, "relu",
                              a.name \o "_conv1"),
        avg_pool2d_1 |-> IF MakesAvdFirst(a) THEN AvdPool(a.stride) ELSE Absent,
        conv2 |-> IF ok THEN conv2 ELSE Absent,
        avg_pool2d_2 |-> IF ok /\ MakesAvdLast(a) THEN AvdPool(a.stride)
                         ELSE Absent,
        conv3 |-> IF ok THEN ConvBNLayer(gw, a.planes * 4, 1, 1, 1, 1, "none",
                                         a.name \o "_conv3")
                  ELSE Absent,
        avg_pool2d_3 |-> IF ok /\ MakesShortcut(a) /\ a.avg_down
                         THEN ShortcutPool(a.stride, a.dilation) ELSE Absent,
        conv4 |-> IF ok /\ MakesShortcut(a) THEN ShortcutConv(a) ELSE Absent,
        batch_norm |-> IF ok /\ MakesShortcut(a)
                       THEN BatchNorm(a.planes * 4, "none",
                                      a.name \o "_shortcut")
                       ELSE Absent]

\* The frame of one BottleneckBlock.forward call: the main value x, the
\* shortcut value short, the result y, the sublayer calls made so far, and
\* the exception that ended the call ("" while none has).
Frame(t) == [x |-> t, short |-> t, y |-> Absent, ops |-> <<>>, err |-> ""]

\* x = self.<nm>(x): reading an attribute __init__ never assigned raises
\* AttributeError; otherwise the sublayer is called.
CallX(f, nm, layer, out) ==
    IF f.err # "" THEN f
    ELSE IF layer = Absent THEN [f EXCEPT !.err = "AttributeError"]
    ELSE IF IsRaised(out) THEN [f EXCEPT !.err = out.err, !.ops = Append(@, nm)]
    ELSE [f EXCEPT !.x = out, !.ops = Append(@, nm)]

\* short = self.<nm>(short)
CallShort(f, nm, layer, out) ==
    IF f.err # "" THEN f
    ELSE IF layer = Absent THEN [f EXCEPT !.err = "AttributeError"]
    ELSE IF IsRaised(out) THEN [f EXCEPT !.err = out.err, !.ops = Append(@, nm)]
    ELSE [f EXCEPT !.short = out, !.ops = Append(@, nm)]

\* the conditions forward tests (lines 328, 333, 339, 340)
UsesAvdFirstStrideOnly(b) == b.avd /\ b.avd_first /\ b.stride > 1

UsesAvdFirst(b) == b.avd /\ b.avd_first /\ (b.stride > 1 \/ b.is_first)

UsesAvdLast(b) == b.avd /\ b.avd_first = FALSE /\ (b.stride > 1 \/ b.is_first)

UsesShortcut(b) == b.stride # 1 \/ b.inplanes # b.planes * 4

UsesShortcutPool(b) == b.avg_down

\* conv2 is a SplatConv or (never, see BlockConv2) a ConvBNLayer
Conv2Forward(l, t) ==
    IF l.kind = "SplatConv" THEN SplatConvForward(l, t)
    ELSE ConvBNLayerForward(l, t)

\* lines 327-337: the main branch
BlockMain(b, f0) ==
    LET f1 == CallX(f0, "conv1", b.conv1, ConvBNLayerForward(b.conv1, f0.x))
        f2 == IF UsesAvdFirst(b)
              THEN CallX(f1, "avg_pool2d_1", b.avg_pool2d_1,
                         Pool2DForward(b.avg_pool2d_1, f1.x))
              ELSE f1
        f3 == CallX(f2, "conv2", b.conv2, Conv2Forward(b.conv2, f2.x))
        f4 == IF UsesAvdLast(b)
              THEN CallX(f3, "avg_pool2d_2", b.avg_pool2d_2,
                         Pool2DForward(b.avg_pool2d_2, f3.x))
              ELSE f3
    IN CallX(f4, "conv3", b.conv3, ConvBNLayerForward(b.conv3, f4.x))

\* lines 339-345: the shortcut branch
BlockShort(b, f0) ==
    IF UsesShortcut(b)
    THEN LET f1 == IF UsesShortcutPool(b)
                   THEN CallShort(f0, "avg_pool2d_3", b.avg_pool2d_3,
                                  Pool2DForward(b.avg_pool2d_3, f0.short))
                   ELSE f0
             f2 == CallShort(f1, "conv4", b.conv4,
                             Conv2DForward(b.conv4, f1.short))
         IN CallShort(f2, "_batch_norm", b.batch_norm,
                      BatchNormForward(b.batch_norm, f2.short))
    ELSE f0

\* Two extents the runtime can add: equal, or one of them 1 (broadcast).
Broadcastable(m, n) == m = n \/ m = 1 \/ n = 1

\* paddle.elementwise_add(x=short, y=x, act="relu").  Operands of equal
\* shape add.  Operands of different shapes are broadcast when every pair of
\* extents is equal or holds a 1, and raise otherwise (a runtime without
\* broadcasting raises in more cases, never in fewer).
ElementwiseAdd(f) ==
    IF f.err # "" THEN f
    ELSE LET called == [f EXCEPT !.ops = Append(@, "elementwise_add")]
             wide == Shape(Max(f.short.c, f.x.c), Max(f.short.h, f.x.h),
                           Max(f.short.w, f.x.w))
         IN IF /\ Broadcastable(f.short.c, f.x.c)
               /\ Broadcastable(f.short.h, f.x.h)
               /\ Broadcastable(f.short.w, f.x.w)
            THEN [called EXCEPT !.y = wide]
            ELSE [called EXCEPT !.err = "ShapeMismatch"]

\* BottleneckBlock.forward: the frame the call ends in.
BottleneckBlockForward(b, t) == ElementwiseAdd(BlockShort(b, BlockMain(b, Frame(t))))

----------------------------------------------------------------------------
(* class ResNeStLayer                                                      *)

\* Layer.add_sublayer(name, layer): the sublayers are a dictionary in
\* insertion order; adding under a name already present replaces the entry.
add_sublayer(subs, name, layer) ==
    IF \E j \in 1..Len(subs) : subs[j].name = name
    THEN [j \in 1..Len(subs) |->
            IF subs[j].name = name THEN [name |-> name, layer |-> layer]
            ELSE subs[j]]
    ELSE Append(subs, [name |-> name, layer |-> layer])

\* the dilation given to block 0 (lines 382, 395, 400, 413); 0 stands for
\* the branch that raises
FirstBlockDilation(dilation) ==
    IF dilation = 1 \/ dilation = 2 THEN 1
    ELSE IF dilation = 4 THEN 2
    ELSE 0

\* the arguments of block 0 (lines 385-399, 403-417)
FirstBlockArgs(a) ==
    [inplanes |-> a.inplanes, planes |-> a.planes, stride |-> a.stride,
     radix |-> a.radix, cardinality |-> a.cardinality,
     bottleneck_width |-> a.bottleneck_width, avg_down |-> a.avg_down,
     avd |-> a.avd, avd_first |-> a.avd_first,
     dilation |-> FirstBlockDilation(a.dilation), is_first |-> a.is_first,
     name |-> a.name \o "_bottleneck_0"]

NextBlockArgsStaleInplanes(L, name) ==
    [inplanes |-> L.args.inplanes, planes |-> L.args.planes, stride |-> 1,
     radix |-> L.args.radix, cardinality |-> L.args.cardinality,
     bottleneck_width |-> L.args.bottleneck_width,
     avg_down |-> L.avg_down, avd |-> L.args.avd,
     avd_first |-> L.args.avd_first, dilation |-> L.args.dilation,
     is_first |-> FALSE, name |-> name]

\* the arguments of block i >= 1 (lines 428-440); stride and is_first are
\* left to BottleneckBlock's defaults 1 and False.  L.inplanes is
\* self.inplanes, L.name the local variable name.
NextBlockArgs(L, name) ==
    [inplanes |-> L.inplanes, planes |-> L.args.planes, stride |-> 1,
     radix |-> L.args.radix, cardinality |-> L.args.cardinality,
     bottleneck_width |-> L.args.bottleneck_width,
     avg_down |-> L.avg_down, avd |-> L.args.avd,
     avd_first |-> L.args.avd_first, dilation |-> L.args.dilation,
     is_first |-> FALSE, name |-> name]

\* the name of block i >= 1 (line 424): appended to the running name
NextBlockNameFirstIndex(name, i) == name \o "_bottleneck_" \o ToString(0)

NextBlockName(name, i) == name \o "_bottleneck_" \o ToString(i)

\* lines 368-422: the attributes, block 0, self.inplanes = planes * 4
LayerBegin(a) ==
    LET base == [kind |-> "ResNeStLayer", status |-> "ok", args |-> a,
                 inplanes |-> a.inplanes, planes |-> a.planes,
                 blocks |-> a.blocks, avg_down |-> a.avg_down,
                 is_first |-> a.is_first, name |-> a.name,
                 sublayers |-> <<>>, bottleneck_block_list |-> <<>>]
        b0 == BottleneckBlock(FirstBlockArgs(a))
    IN IF FirstBlockDilation(a.dilation) = 0
       THEN [base EXCEPT !.status = "RuntimeError"]
       ELSE IF b0.status # "ok" THEN [base EXCEPT !.status = b0.status]
       ELSE [base EXCEPT
               !.sublayers = add_sublayer(@, a.name \o "_bottleneck_0", b0),
               !.inplanes = a.planes * 4,
               !.bottleneck_block_list = <<b0>>]

\* lines 424-441: one iteration of the loop
LayerAppend(L, i) ==
    LET name == NextBlockName(L.name, i)
        b == BottleneckBlock(NextBlockArgs(L, name))
    IN IF b.status # "ok" THEN [L EXCEPT !.status = b.status, !.name = name]
       ELSE [L EXCEPT !.name = name,
                      !.sublayers = add_sublayer(@, name, b),
                      !.bottleneck_block_list = Append(@, b)]

\* for i in range(1, blocks)
RECURSIVE LayerLoop(_, _)
LayerLoop(L, i) ==
    IF i >= L.blocks \/ L.status # "ok" THEN L
    ELSE LayerLoop(LayerAppend(L, i), i + 1)

\* ResNeStLayer.__init__
ResNeStLayer(a) == LayerLoop(LayerBegin(a), 1)

----------------------------------------------------------------------------
(* class ResNeSt                                                           *)

\* self.stem: the sublayers of the Sequential, or the single ConvBNLayer
Stem(a) ==
    IF a.deep_stem
    THEN <<ConvBNLayer(3, a.stem_width, 3, 2, 1, 1, "relu", "conv1"),
           ConvBNLayer(a.stem_width, a.stem_width, 3, 1, 1, 1, "relu", "conv2"),
           ConvBNLayer(a.stem_width, a.stem_width * 2, 3, 1, 1, 1, "relu",
                       "conv3")>>
    ELSE <<ConvBNLayer(3, a.stem_width, 7, 2, 1, 1, "relu", "conv1")>>

StageInplanesShallow(a, k) ==
    CASE k = 1 -> a.stem_width
      [] k = 2 -> 256
      [] k = 3 -> 512
      [] k = 4 -> 1024

\* inplanes of stage k (lines 522, 542, 558, 573, ...)
StageInplanes(a, k) ==
    CASE k = 1 -> IF a.deep_stem THEN a.stem_width * 2 ELSE a.stem_width
      [] k = 2 -> 256
      [] k = 3 -> 512
      [] k = 4 -> 1024

\* planes of stage k
StagePlanes(k) == CASE k = 1 -> 64 [] k = 2 -> 128 [] k = 3 -> 256 [] k = 4 -> 512

\* stride of stage k, by the branch of lines 556, 587, 618
StageStride(a, k) ==
    CASE k = 1 -> 1
      [] k = 2 -> 2
      [] k = 3 -> IF a.dilated \/ a.dilation = 4 THEN 1 ELSE 2
      [] k = 4 -> IF a.dilated \/ a.dilation = 4 THEN 1
                  ELSE IF a.dilation = 2 THEN 1 ELSE 2

StageDilationPassed(a, k) == IF k >= 3 THEN a.dilation ELSE 1

\* dilation of stage k, by the same branches; ResNeStLayer's default is 1
StageDilation(a, k) ==
    CASE k = 1 -> 1
      [] k = 2 -> 1
      [] k = 3 -> IF a.dilated \/ a.dilation = 4 THEN 2 ELSE 1
      [] k = 4 -> IF a.dilated \/ a.dilation = 4 THEN 4
                  ELSE IF a.dilation = 2 THEN 2 ELSE 1

\* is_first of stage k: layer1 passes False, the others leave ResNeStLayer's
\* default True
StageIsFirst(k) == k # 1

StageArgs(a, k) ==
    [inplanes |-> StageInplanes(a, k), planes |-> StagePlanes(k),
     blocks |-> a.layers[k], radix |-> a.radix, cardinality |-> a.groups,
     bottleneck_width |-> a.bottleneck_width, avg_down |-> a.avg_down,
     avd |-> a.avd, avd_first |-> a.avd_first, stride |-> StageStride(a, k),
     dilation |-> StageDilation(a, k), is_first |-> StageIsFirst(k),
     name |-> "layer" \o ToString(k)]

\* self.out
Linear(input_dim, output_dim) ==
    [kind |-> "Linear", input_dim |-> input_dim, output_dim |-> output_dim,
     params |-> {"fc_weights", "fc_offset"}]

\* ResNeSt.__init__.  The stages are built in order; an exception raised by
\* one of them leaves the constructor, and nothing after it is assigned.
ResNeSt(a) ==
    LET l1 == ResNeStLayer(StageArgs(a, 1))
        l2 == ResNeStLayer(StageArgs(a, 2))
        l3 == ResNeStLayer(StageArgs(a, 3))
        l4 == ResNeStLayer(StageArgs(a, 4))
        ok1 == l1.status = "ok"
        ok2 == ok1 /\ l2.status = "ok"
        ok3 == ok2 /\ l3.status = "ok"
        ok4 == ok3 /\ l4.status = "ok"
    IN [kind |-> "ResNeSt",
        status |-> IF ~ok1 THEN l1.status
                   ELSE IF ~ok2 THEN l2.status
                   ELSE IF ~ok3 THEN l3.status
                   ELSE l4.status,
        stem |-> Stem(a),
        max_pool2d |-> Pool2D(3, 2, 1, "max", FALSE),
        layer1 |-> IF ok1 THEN l1 ELSE Absent,
        layer2 |-> IF ok2 THEN l2 ELSE Absent,
        layer3 |-> IF ok3 THEN l3 ELSE Absent,
        layer4 |-> IF ok4 THEN l4 ELSE Absent,
        pool2d_avg |-> IF ok4 THEN GlobalPool2D("avg") ELSE Absent,
        out_channels |-> IF ok4 THEN 2048 ELSE 0,
        out |-> IF ok4 THEN Linear(2048, a.class_dim) ELSE Absent]

\* self.stem(x): the ConvBNLayers in order
RECURSIVE StemForward(_, _)
StemForward(stem, t) ==
    IF stem = <<>> THEN t
    ELSE StemForward(Tail(stem), ConvBNLayerForward(Head(stem), t))

\* paddle.reshape(x, shape=[-1, self.out_channels]), per image
Flatten(t, out_channels) ==
    IF t.c * t.h * t.w = out_channels THEN Shape(out_channels, 1, 1)
    ELSE Raised("ReshapeMismatch")

\* Linear.__call__
LinearForward(l, t) ==
    IF t.c # l.input_dim THEN Raised("ChannelMismatch")
    ELSE Shape(l.output_dim, 1, 1)

\* ResNeSt50_fast_1s1x64d(**args) and ResNeSt50(**args): the constructor
\* arguments, args being the pass-through dilated and dilation
ResNeSt50_fast_1s1x64d(dilated, dilation) ==
    [layers |-> <<3, 4, 6, 3>>, radix |-> 1, groups |-> 1,
     bottleneck_width |-> 64, dilated |-> dilated, dilation |-> dilation,
     deep_stem |-> TRUE, stem_width |-> 32, avg_down |-> TRUE, avd |-> TRUE,
     avd_first |-> TRUE, class_dim |-> 1000]

ResNeSt50(dilated, dilation) ==
    [layers |-> <<3, 4, 6, 3>>, radix |-> 2, groups |-> 1,
     bottleneck_width |-> 64, dilated |-> dilated, dilation |-> dilation,
     deep_stem |-> TRUE, stem_width |-> 32, avg_down |-> TRUE, avd |-> TRUE,
     avd_first |-> FALSE, class_dim |-> 1000]

----------------------------------------------------------------------------
(* split attention, per channel                                            *)
(*                                                                         *)
(* Here a tensor of shape [batch, n, 1, 1] or [batch, n, h, w] is the      *)
(* sequence of its n channels (row-major order, so a reshape leaves the    *)
(* sequence as it is).  A channel of conv1's output is named by its index; *)
(* an attention value is a record: pos, the channel of conv3's output it   *)
(* was computed at, group, the group of the grouped convolution conv3 that *)
(* computed it, and over, the positions it was normalised with.            *)

\* paddle.split(seq, num_or_sections = n, axis = 1) divides evenly
Splits(seq, n) == Len(seq) % n = 0

\* the n chunks of paddle.split
Split(seq, n) ==
    LET m == Len(seq) \div n
    IN [k \in 1..n |-> [j \in 1..m |-> seq[(k - 1) * m + j]]]

\* the group of a grouped convolution that computes output channel p: the
\* num_filters outputs fall into `groups` equal runs
ConvGroup(conv, p) == ((p - 1) * conv.groups) \div conv.num_filters

TransposeNone(data, cardinality, radix, inner) == data

\* paddle.transpose(x, perm=[0, 2, 1, 3]) of [batch, cardinality, radix,
\* inner]: entry (r, c, k) of the result is entry (c, r, k) of the input
Transpose(data, cardinality, radix, inner) ==
    [q \in 1..Len(data) |->
        LET r == (q - 1) \div (cardinality * inner)
            c == ((q - 1) \div inner) % cardinality
            k == (q - 1) % inner
        IN data[(c * radix + r) * inner + k + 1]]

\* nn.functional.softmax(x, axis=1) of [batch, radix, cardinality, inner]:
\* the entries that differ only in the radix index are normalised together
Softmax(data, cardinality, radix, inner) ==
    [q \in 1..Len(data) |->
        [data[q] EXCEPT !.over =
            {data[q2].pos : q2 \in {n \in 1..Len(data) :
                (n - 1) % (cardinality * inner) = (q - 1) % (cardinality * inner)}}]]

\* nn.functional.sigmoid(x): every entry on its own
Sigmoid(data) == [q \in 1..Len(data) |-> [data[q] EXCEPT !.over = {data[q].pos}]]

\* rSoftmax.forward on the attention values (h = w = 1): the values, or
\* the exception of paddle.reshape
rSoftmaxChannels(rs, data) ==
    IF rs.radix > 1
    THEN LET inner == RSoftmaxInner(Len(data), 1, 1, rs.cardinality, rs.radix)
         IN IF rs.cardinality * rs.radix * inner # Len(data)
            THEN [err |-> "ReshapeMismatch", data |-> <<>>]
            ELSE [err |-> "",
                  data |-> Softmax(Transpose(data, rs.cardinality, rs.radix,
                                             inner),
                                   rs.cardinality, rs.radix, inner)]
    ELSE [err |-> "", data |-> Sigmoid(data)]

\* lines 157-163: x = self.conv1(x), the splits and their sum
SplatFeatures(s) ==
    LET xs == [i \in 1..s.conv1.conv.num_filters |-> i]
        ok == s.radix > 1 => Splits(xs, s.radix)
        splited == IF s.radix > 1 THEN Split(xs, s.radix) ELSE <<xs>>
    IN [x |-> xs,
        splited |-> IF ok THEN splited ELSE <<>>,
        gap |-> IF ok THEN [j \in 1..Len(splited[1]) |->
                              {splited[k][j] : k \in 1..Len(splited)}]
                ELSE <<>>,
        atten |-> <<>>, attens |-> <<>>, y |-> <<>>, inner |-> 0,
        err |-> IF ok THEN "" ELSE "SplitMismatch"]

\* lines 165-168: the pooled sum through conv2 and conv3
SplatAttention(s, v) ==
    IF v.err # "" THEN v
    ELSE IF Len(v.gap) # s.conv2.conv.num_channels
    THEN [v EXCEPT !.err = "ChannelMismatch"]
    ELSE [v EXCEPT !.atten =
            [p \in 1..s.conv3.num_filters |->
                [pos |-> p, group |-> ConvGroup(s.conv3, p), over |-> {}]]]

\* line 169: atten = self.rsoftmax(atten)
SplatNormalise(s, v) ==
    IF v.err # "" THEN v
    ELSE LET out == rSoftmaxChannels(s.rsoftmax, v.atten)
         IN IF out.err # "" THEN [v EXCEPT !.err = out.err]
            ELSE [v EXCEPT !.atten = out.data,
                           !.inner = RSoftmaxInner(Len(v.atten), 1, 1,
                                                   s.rsoftmax.cardinality,
                                                   s.rsoftmax.radix)]

\* lines 170-177: the weights, split like the features, gate them; channel
\* j of y is the sum of the products listed
SplatGate(s, v) ==
    IF v.err # "" THEN v
    ELSE IF s.radix > 1 /\ ~Splits(v.atten, s.radix)
    THEN [v EXCEPT !.err = "SplitMismatch"]
    ELSE LET attens == IF s.radix > 1 THEN Split(v.atten, s.radix)
                       ELSE <<v.atten>>
         IN IF Len(attens[1]) # Len(v.splited[1])
            THEN [v EXCEPT !.err = "ShapeMismatch"]
            ELSE [v EXCEPT
                    !.attens = attens,
                    !.y = [j \in 1..Len(attens[1]) |->
                             {[att |-> attens[k][j], chunk |-> k,
                               feat |-> v.splited[k][j]] :
                                  k \in 1..Len(attens)}]]

----------------------------------------------------------------------------
(* The runs: construct an object from cfg, then call forward on it.        *)

At(at) == [at |-> at, i |-> 0]

\* the order of the statements of ResNeSt.forward (lines 663-673)
ForwardOrder == <<"stem", "max_pool2d", "layer1", "layer2", "layer3", "layer4", "pool2d_avg", "reshape", "out">>

\* the position after statement `at` of ResNeSt.forward
After(at) ==
    LET j == CHOOSE n \in 1..Len(ForwardOrder) : ForwardOrder[n] = at
    IN IF j = Len(ForwardOrder) THEN At("done") ELSE At(ForwardOrder[j + 1])

Step(op) == [op |-> op, i |-> 0]

\* x = <sublayer>(x) in ResNeSt.forward: the next position, or "raised"
Continue(at, t) == IF IsRaised(t) THEN At("raised") ELSE After(at)

BlockCfgs ==
    [inplanes : {64, 256}, planes : {64}, stride : {1, 2}, radix : {0, 1, 2},
     cardinality : {1, 2}, bottleneck_width : {64}, avg_down : BOOLEAN,
     avd : BOOLEAN, avd_first : BOOLEAN, dilation : {1, 2},
     is_first : BOOLEAN, name : {"b"}]

LayerCfgs ==
    [inplanes : {64, 256}, planes : {64}, blocks : 0..MaxBlocks + 1,
     radix : {0, 1, 2}, cardinality : {1}, bottleneck_width : {64},
     avg_down : BOOLEAN, avd : BOOLEAN, avd_first : {FALSE},
     stride : {1, 2}, dilation : 0..5, is_first : BOOLEAN, name : {"layer"}]

Depths == {<<m, n, n, m>> : m, n \in 1..MaxBlocks}

\* the depths networks are constructed with: the small ones and the depths
\* of the exported networks (lines 679, 695)
CtorDepths == Depths \cup {<<3, 4, 6, 3>>}

NetCfgs ==
    [layers : CtorDepths, radix : {0, 1, 2}, groups : {1, 2},
     bottleneck_width : {32, 64}, dilated : BOOLEAN, dilation : 1..4,
     deep_stem : BOOLEAN, stem_width : {32, 64}, avg_down : BOOLEAN,
     avd : BOOLEAN, avd_first : BOOLEAN, class_dim : {1000}]

\* the configurations forward is run on
RunCfgs ==
    [layers : Depths, radix : {1, 2}, groups : {1},
     bottleneck_width : {64}, dilated : BOOLEAN, dilation : {1, 2, 4},
     deep_stem : BOOLEAN, stem_width : {32}, avg_down : BOOLEAN,
     avd : BOOLEAN, avd_first : BOOLEAN, class_dim : {1000}]

\* blocks small enough to follow every channel.  Kept are those whose
\* width per cardinal group is a multiple of radix: the runtime's Conv2D
\* rejects a channel count that its groups (cardinality * radix in
\* SplatConv.conv1) do not divide.
SmallCfgs ==
    {a \in [inplanes : {4}, planes : 1..MaxPlanes, stride : {1},
            radix : 1..MaxRadix, cardinality : 1..MaxCard,
            bottleneck_width : {64, 96, 128}, avg_down : {FALSE},
            avd : {FALSE}, avd_first : {FALSE}, dilation : {1},
            is_first : {FALSE}, name : {"b"}] :
        ((a.planes * a.bottleneck_width) \div 64) % a.radix = 0}

ExportedCfgs ==
    {ResNeSt50_fast_1s1x64d(d, n) : d \in BOOLEAN, n \in {1, 2, 4}}
    \cup {ResNeSt50(d, n) : d \in BOOLEAN, n \in {1, 2, 4}}

Start(kind, cfgs, maxh) ==
    /\ pc = At("new")
    /\ cfg \in [kind : {kind}, args : cfgs, heights : {1..maxh}]
    /\ obj = Absent
    /\ x = Absent
    /\ trace = <<>>

Built(o) == IF o.status = "ok" THEN At("built") ELSE At("raised")

ConstructBlock ==
    /\ pc = At("new") /\ cfg.kind = "block"
    /\ obj' = BottleneckBlock(cfg.args)
    /\ pc' = Built(obj')
    /\ UNCHANGED <<cfg, x, trace>>

ConstructLayer ==
    /\ pc = At("new") /\ cfg.kind = "layer"
    /\ obj' = ResNeStLayer(cfg.args)
    /\ pc' = Built(obj')
    /\ UNCHANGED <<cfg, x, trace>>

ConstructNet ==
    /\ pc = At("new") /\ cfg.kind = "net"
    /\ obj' = ResNeSt(cfg.args)
    /\ pc' = Built(obj')
    /\ UNCHANGED <<cfg, x, trace>>

\* BottleneckBlock.forward on an input of inplanes channels
ForwardBlock ==
    /\ pc = At("built") /\ obj.kind = "BottleneckBlock"
    /\ \E h, w \in cfg.heights :
         LET f == BottleneckBlockForward(obj, Shape(obj.inplanes, h, w))
         IN /\ x' = f
            /\ trace' = f.ops
            /\ pc' = IF f.err = "" THEN At("done") ELSE At("raised")
    /\ UNCHANGED <<cfg, obj>>

\* x = self.stem(x), on an image of 3 channels
ForwardStem ==
    /\ pc = At("built") /\ obj.kind = "ResNeSt"
    /\ \E h \in cfg.heights, w \in 1..MaxWidth :
         x' = StemForward(obj.stem, Shape(3, h, w))
    /\ trace' = <<Step("stem")>>
    /\ pc' = Continue("stem", x')
    /\ UNCHANGED <<cfg, obj>>

\* x = self.max_pool2d(x)
ForwardMaxPool ==
    /\ pc = At("max_pool2d")
    /\ x' = Pool2DForward(obj.max_pool2d, x)
    /\ trace' = Append(trace, Step("max_pool2d"))
    /\ pc' = Continue("max_pool2d", x')
    /\ UNCHANGED <<cfg, obj>>

\* x = self.layer<k>(x): one iteration of the loop of ResNeStLayer.forward
\* (lines 444-445); after the last block the layer returns
ForwardLayerBlock(k) ==
    LET at == "layer" \o ToString(k)
        list == obj[at].bottleneck_block_list
        f == BottleneckBlockForward(list[pc.i + 1], x)
    IN /\ pc.at = at
       /\ trace' = Append(trace, [op |-> at, i |-> pc.i, main |-> f.x,
                                  short |-> f.short, ops |-> f.ops])
       /\ IF f.err # "" THEN x' = Raised(f.err) /\ pc' = At("raised")
          ELSE /\ x' = f.y
               /\ pc' = IF pc.i + 1 < Len(list)
                        THEN [pc EXCEPT !.i = @ + 1]
                        ELSE After(at)
       /\ UNCHANGED <<cfg, obj>>

ForwardLayer == \E k \in 1..4 : ForwardLayerBlock(k)

\* x = self.pool2d_avg(x)
ForwardPool ==
    /\ pc = At("pool2d_avg")
    /\ x' = Pool2DForward(obj.pool2d_avg, x)
    /\ trace' = Append(trace, Step("pool2d_avg"))
    /\ pc' = Continue("pool2d_avg", x')
    /\ UNCHANGED <<cfg, obj>>

\* x = paddle.reshape(x, shape=[-1, self.out_channels])
ForwardReshape ==
    /\ pc = At("reshape")
    /\ x' = Flatten(x, obj.out_channels)
    /\ trace' = Append(trace, Step("reshape"))
    /\ pc' = Continue("reshape", x')
    /\ UNCHANGED <<cfg, obj>>

\* x = self.out(x)
ForwardOut ==
    /\ pc = At("out")
    /\ x' = LinearForward(obj.out, x)
    /\ trace' = Append(trace, Step("out"))
    /\ pc' = Continue("out", x')
    /\ UNCHANGED <<cfg, obj>>

\* SplatConv.forward of the block's conv2, statement by statement
SplatConv1 ==
    /\ pc = At("built") /\ obj.kind = "BottleneckBlock"
    /\ x' = SplatFeatures(obj.conv2)
    /\ trace' = <<"conv1">>
    /\ pc' = IF x'.err = "" THEN At("conv3") ELSE At("raised")
    /\ UNCHANGED <<cfg, obj>>

SplatConv3 ==
    /\ pc = At("conv3")
    /\ x' = SplatAttention(obj.conv2, x)
    /\ trace' = Append(trace, "conv3")
    /\ pc' = IF x'.err = "" THEN At("rsoftmax") ELSE At("raised")
    /\ UNCHANGED <<cfg, obj>>

SplatRSoftmax ==
    /\ pc = At("rsoftmax")
    /\ x' = SplatNormalise(obj.conv2, x)
    /\ trace' = Append(trace, "rsoftmax")
    /\ pc' = IF x'.err = "" THEN At("gate") ELSE At("raised")
    /\ UNCHANGED <<cfg, obj>>

SplatSum ==
    /\ pc = At("gate")
    /\ x' = SplatGate(obj.conv2, x)
    /\ trace' = Append(trace, "sums")
    /\ pc' = IF x'.err = "" THEN At("done") ELSE At("raised")
    /\ UNCHANGED <<cfg, obj>>

ForwardNet ==
    \/ ForwardStem
    \/ ForwardMaxPool
    \/ ForwardLayer
    \/ ForwardPool
    \/ ForwardReshape
    \/ ForwardOut

\* single bottleneck blocks: construction and forward
InitBlock == Start("block", BlockCfgs, MaxBlockSize)

NextBlock == ConstructBlock \/ ForwardBlock

SpecBlock == InitBlock /\ [][NextBlock]_vars

\* the split-attention convolution of a small block, channel by channel
InitSplat == Start("block", SmallCfgs, 1)

NextSplat == ConstructBlock \/ SplatConv1 \/ SplatConv3 \/ SplatRSoftmax \/ SplatSum

SpecSplat == InitSplat /\ [][NextSplat]_vars

\* construction of stages and of whole networks
InitCtor == Start("layer", LayerCfgs, 0) \/ Start("net", NetCfgs, 0)

NextCtor == ConstructLayer \/ ConstructNet

SpecCtor == InitCtor /\ [][NextCtor]_vars

\* whole networks: construction and forward
Init == Start("net", RunCfgs, MaxSize)

Next == ConstructNet \/ ForwardNet

Spec == Init /\ [][Next]_vars

\* the two exported models: construction and forward
InitExported == Start("net", ExportedCfgs, MaxExportedSize)

SpecExported == InitExported /\ [][Next]_vars

----------------------------------------------------------------------------
(* Properties of single bottleneck blocks (SpecBlock)                      *)

BlockRan == cfg.kind = "block" /\ x # Absent

\* C5: for every block configuration and every input size, the two
\* operands of the residual addition have the same height and width.
C5_ResidualOperandsSameSize ==
    BlockRan => x.short.h = x.x.h /\ x.short.w = x.x.w

Positions(ops, nm) == {j \in 1..Len(ops) : ops[j] = nm}

AvdApplies(a) == a.avd /\ (a.stride > 1 \/ a.is_first)

\* C6: in a forward call the avd pool runs exactly once when avd and
\* (stride > 1 or is_first), and not at all otherwise; with avd_first it
\* runs after conv1 and immediately before conv2, without avd_first
\* immediately after conv2 and before conv3; never at both places.
C6_AvdPoolOnceAtItsPlace ==
    BlockRan =>
        LET a == cfg.args
            p1 == Positions(trace, "avg_pool2d_1")
            p2 == Positions(trace, "avg_pool2d_2")
        IN /\ Cardinality(p1) + Cardinality(p2) = IF AvdApplies(a) THEN 1 ELSE 0
           /\ p1 = {} \/ p2 = {}
           /\ AvdApplies(a) /\ a.avd_first =>
                 \A j \in p1 : /\ j > 1 /\ trace[j - 1] = "conv1"
                               /\ j < Len(trace) /\ trace[j + 1] = "conv2"
           /\ AvdApplies(a) /\ ~a.avd_first =>
                 \A j \in p2 : /\ j > 1 /\ trace[j - 1] = "conv2"
                               /\ j < Len(trace) /\ trace[j + 1] = "conv3"
           /\ AvdApplies(a) => p1 \cup p2 # {}
           /\ AvdApplies(a) => (p1 # {}) = a.avd_first

\* a forward call of a first block of stride 1 that pooled after conv2
C6_Witness ==
    /\ BlockRan
    /\ cfg.args.avd /\ ~cfg.args.avd_first
    /\ cfg.args.is_first /\ cfg.args.stride = 1
    /\ Positions(trace, "avg_pool2d_2") # {}

\* C10: with radix < 1 the block's construction completes and conv2 is a
\* plain ConvBNLayer (3x3, stride 1, groups = cardinality, the block's
\* dilation, relu, group_width channels in and out); with radix >= 1 conv2
\* is a SplatConv.
C10_Conv2ByRadix ==
    cfg.kind = "block" /\ pc # At("new") =>
        LET a == cfg.args
            gw == group_width(a.planes, a.bottleneck_width, a.cardinality)
        IN /\ obj.status = "ok"
           /\ IF a.radix < 1
              THEN obj.conv2 = ConvBNLayer(gw, gw, 3, 1, a.dilation,
                                           a.cardinality, "relu",
                                           a.name \o "_conv2")
              ELSE obj.conv2.kind = "SplatConv"

BlockBuilt == cfg.kind = "block" /\ pc # At("new") /\ obj.status = "ok"

\* C11: for every block configuration whose construction completes, each
\* optional sublayer (avg_pool2d_1, avg_pool2d_2, avg_pool2d_3, conv4, the
\* shortcut _batch_norm) is an attribute of the block exactly when forward's
\* condition for calling it holds, every call forward made went to an
\* attribute the block has, and no forward call ends in AttributeError.
C11_ForwardUsesOnlyWhatInitMade ==
    BlockBuilt =>
        /\ (obj.avg_pool2d_1 # Absent) = UsesAvdFirst(obj)
        /\ (obj.avg_pool2d_2 # Absent) = UsesAvdLast(obj)
        /\ (obj.avg_pool2d_3 # Absent) = (UsesShortcut(obj) /\ UsesShortcutPool(obj))
        /\ (obj.conv4 # Absent) = UsesShortcut(obj)
        /\ (obj.batch_norm # Absent) = UsesShortcut(obj)
        /\ x # Absent =>
              /\ x.err # "AttributeError"
              /\ Positions(trace, "avg_pool2d_1") # {} => obj.avg_pool2d_1 # Absent
              /\ Positions(trace, "avg_pool2d_2") # {} => obj.avg_pool2d_2 # Absent
              /\ Positions(trace, "avg_pool2d_3") # {} => obj.avg_pool2d_3 # Absent
              /\ Positions(trace, "conv4") # {} => obj.conv4 # Absent
              /\ Positions(trace, "_batch_norm") # {} => obj.batch_norm # Absent

\* a forward call that pooled before conv2 and took the pooled shortcut
\* (avg_pool2d_3, conv4, _batch_norm) and returned a value
C11_Witness ==
    /\ BlockBuilt /\ x # Absent /\ x.err = ""
    /\ Positions(trace, "avg_pool2d_1") # {}
    /\ Positions(trace, "avg_pool2d_3") # {}
    /\ Positions(trace, "conv4") # {}
    /\ Positions(trace, "_batch_norm") # {}

----------------------------------------------------------------------------
(* Properties of construction (SpecCtor)                                   *)

LayerBuilt == cfg.kind = "layer" /\ pc = At("built")

RegisteredNames(L) == {L.sublayers[j].name : j \in 1..Len(L.sublayers)}

IdentityShortcut(b) ==
    /\ ~UsesShortcut(b)
    /\ b.conv4 = Absent /\ b.batch_norm = Absent /\ b.avg_pool2d_3 = Absent

LaterBlocksPlain(L) ==
    \A j \in 2..Len(L.bottleneck_block_list) :
        LET b == L.bottleneck_block_list[j]
        IN /\ b.stride = 1 /\ b.is_first = FALSE
           /\ b.inplanes = b.planes * 4
           /\ IdentityShortcut(b)

FirstBlockAsStage(L, a) ==
    /\ L.bottleneck_block_list[1].stride = a.stride
    /\ L.bottleneck_block_list[1].is_first = a.is_first

RegistersBlocks(L, n) ==
    /\ Len(L.bottleneck_block_list) = n
    /\ Len(L.sublayers) = n
    /\ Cardinality(RegisteredNames(L)) = n
    /\ \A j \in 1..n : L.sublayers[j].layer = L.bottleneck_block_list[j]

\* C7 as stated: a layer built with blocks = n registers exactly n blocks;
\* block 0 alone gets the stage's stride and is_first, every later block
\* has stride 1, is_first False, inplanes = planes*4 and the identity
\* shortcut.
C7_RegistersBlocksAsStated ==
    LayerBuilt =>
        /\ RegistersBlocks(obj, cfg.args.blocks)
        /\ FirstBlockAsStage(obj, cfg.args)
        /\ LaterBlocksPlain(obj)

\* C7 amended: a layer built with blocks = n registers exactly max(n, 1)
\* blocks (block 0 is built before the loop, also when n = 0); the rest as
\* stated.
C7_RegistersAtLeastOneBlock ==
    LayerBuilt =>
        /\ RegistersBlocks(obj, Max(cfg.args.blocks, 1))
        /\ FirstBlockAsStage(obj, cfg.args)
        /\ LaterBlocksPlain(obj)

\* a built layer of three blocks whose first block projects its shortcut
C7_Witness ==
    /\ LayerBuilt
    /\ cfg.args.blocks = 3 /\ cfg.args.stride = 2 /\ cfg.args.inplanes = 64
    /\ Len(obj.bottleneck_block_list) = 3
    /\ obj.bottleneck_block_list[1].conv4 # Absent

KnownDilations == {1, 2, 4}

\* C8: constructing a layer raises RuntimeError exactly when its dilation is
\* not 1, 2 or 4, and then no block has been registered; the network passes
\* only 1, 2 or 4 to its four stages, so its construction never raises it.
C8_UnknownDilationRaises ==
    /\ cfg.kind = "layer" /\ pc # At("new") =>
          /\ (obj.status = "RuntimeError") = (cfg.args.dilation \notin KnownDilations)
          /\ obj.status = "RuntimeError" =>
                obj.sublayers = <<>> /\ obj.bottleneck_block_list = <<>>
    /\ cfg.kind = "net" /\ pc # At("new") =>
          /\ obj.status # "RuntimeError"
          /\ \A k \in 1..4 : StageArgs(cfg.args, k).dilation \in KnownDilations
          /\ \A k \in 1..4 :
                LET l == obj["layer" \o ToString(k)]
                IN l # Absent => /\ l.args = StageArgs(cfg.args, k)
                                 /\ l.args.dilation \in KnownDilations

\* a layer whose construction raised for dilation 3
C8_Witness ==
    /\ cfg.kind = "layer" /\ pc = At("raised")
    /\ cfg.args.dilation = 3
    /\ obj.status = "RuntimeError"

\* the channels a split-attention convolution hands on, NoChannels when its
\* own modules do not fit each other
NoChannels == 0 - 1

SplatChannels(s, cin) ==
    LET out == s.conv1.conv.num_filters \div s.radix
    IN IF /\ s.conv1.conv.num_channels = cin
          /\ s.conv1.batch_norm.num_channels = s.conv1.conv.num_filters
          /\ out * s.radix = s.conv1.conv.num_filters
          /\ s.conv2.conv.num_channels = out
          /\ s.conv2.batch_norm.num_channels = s.conv2.conv.num_filters
          /\ s.conv3.num_channels = s.conv2.conv.num_filters
          /\ s.conv3.num_filters = s.conv1.conv.num_filters
       THEN out ELSE NoChannels

\* the channels a block hands on when fed cin channels
BlockChannels(b, cin) ==
    LET main == b.conv3.conv.num_filters
    IN IF /\ b.conv1.conv.num_channels = cin
          /\ b.conv1.batch_norm.num_channels = b.conv1.conv.num_filters
          /\ SplatChannels(b.conv2, b.conv1.conv.num_filters)
                = b.conv3.conv.num_channels
          /\ b.conv3.batch_norm.num_channels = main
          /\ main = b.planes * 4
          /\ IF UsesShortcut(b)
             THEN /\ b.conv4 # Absent /\ b.batch_norm # Absent
                  /\ b.conv4.num_channels = cin
                  /\ b.conv4.num_filters = main
                  /\ b.batch_norm.num_channels = main
             ELSE cin = main
       THEN main ELSE NoChannels

RECURSIVE ChainChannels(_, _)
ChainChannels(list, cin) ==
    IF list = <<>> \/ cin = NoChannels THEN cin
    ELSE ChainChannels(Tail(list), BlockChannels(Head(list), cin))

RECURSIVE StemChannels(_, _)
StemChannels(stem, cin) ==
    IF stem = <<>> \/ cin = NoChannels THEN cin
    ELSE IF /\ Head(stem).conv.num_channels = cin
            /\ Head(stem).batch_norm.num_channels = Head(stem).conv.num_filters
         THEN StemChannels(Tail(stem), Head(stem).conv.num_filters)
         ELSE NoChannels

NetBuilt == cfg.kind = "net" /\ pc # At("new")

\* C2: for every configuration with radix >= 1 each module's declared input
\* channels are the output channels of the module feeding it: the stem into
\* layer1, each stage into the next, conv1 -> conv2 -> conv3 and the
\* shortcut against the main branch in every block, and layer4's 2048
\* channels into the classifier.
C2_ChannelsChain ==
    NetBuilt /\ cfg.args.radix >= 1 =>
        /\ obj.status = "ok"
        /\ LET c0 == StemChannels(obj.stem, 3)
               c1 == ChainChannels(obj.layer1.bottleneck_block_list, c0)
               c2 == ChainChannels(obj.layer2.bottleneck_block_list, c1)
               c3 == ChainChannels(obj.layer3.bottleneck_block_list, c2)
               c4 == ChainChannels(obj.layer4.bottleneck_block_list, c3)
           IN /\ c0 # NoChannels /\ c0 = obj.layer1.args.inplanes
              /\ c1 = 256 /\ c1 = obj.layer2.args.inplanes
              /\ c2 = 512 /\ c2 = obj.layer3.args.inplanes
              /\ c3 = 1024 /\ c3 = obj.layer4.args.inplanes
              /\ c4 = 2048 /\ c4 = obj.out_channels
              /\ c4 = obj.out.input_dim

\* a built deep-stem network of radix 2 and cardinality 2
C2_Witness ==
    /\ NetBuilt /\ obj.status = "ok"
    /\ cfg.args.radix = 2 /\ cfg.args.groups = 2 /\ cfg.args.deep_stem
    /\ cfg.args.bottleneck_width = 32
    /\ Len(obj.layer3.bottleneck_block_list) = 2

\* The layers of the model that create named parameters or moving
\* statistics, one entry per layer object, in construction order.
ConvBNLeaves(l) == <<l.conv, l.batch_norm>>

SplatLeaves(s) == ConvBNLeaves(s.conv1) \o ConvBNLeaves(s.conv2) \o <<s.conv3>>

BlockLeaves(b) ==
    ConvBNLeaves(b.conv1) \o SplatLeaves(b.conv2) \o ConvBNLeaves(b.conv3)
    \o (IF b.conv4 # Absent THEN <<b.conv4>> ELSE <<>>)
    \o (IF b.batch_norm # Absent THEN <<b.batch_norm>> ELSE <<>>)

RECURSIVE BlocksLeaves(_)
BlocksLeaves(bs) ==
    IF bs = <<>> THEN <<>> ELSE BlockLeaves(Head(bs)) \o BlocksLeaves(Tail(bs))

RECURSIVE StemLeaves(_)
StemLeaves(ls) ==
    IF ls = <<>> THEN <<>> ELSE ConvBNLeaves(Head(ls)) \o StemLeaves(Tail(ls))

StageLeaves(L) == BlocksLeaves(L.bottleneck_block_list)

NetLeaves(n) ==
    StemLeaves(n.stem) \o StageLeaves(n.layer1) \o StageLeaves(n.layer2)
    \o StageLeaves(n.layer3) \o StageLeaves(n.layer4) \o <<n.out>>

\* the names the layer objects ask for: the weight of each Conv2D; scale,
\* offset, moving mean and moving variance of each BatchNorm; weight and
\* bias of each Linear
OfKind(ls, kind) == Cardinality({j \in 1..Len(ls) : ls[j].kind = kind})

TotalAsked(ls) ==
    OfKind(ls, "Conv2D") + 4 * OfKind(ls, "BatchNorm") + 2 * OfKind(ls, "Linear")

NamesOf(ls) == UNION {ls[j].params : j \in 1..Len(ls)}

\* as many different names as names asked for: no name is used twice
PairwiseDistinct(ls) == Cardinality(NamesOf(ls)) = TotalAsked(ls)

\* every block of the stage is registered under a name of its own
StageNamesDistinct(L) ==
    /\ Len(L.sublayers) = Len(L.bottleneck_block_list)
    /\ Cardinality(RegisteredNames(L)) = Len(L.bottleneck_block_list)
    /\ \A j \in 1..Len(L.sublayers) :
          L.sublayers[j].layer = L.bottleneck_block_list[j]

\* C12: in a constructed ResNeSt model (radix >= 1, any depths, deep_stem,
\* avg_down) the names of all parameters and moving statistics are pairwise
\* distinct, within each stage and over the whole model, and the sublayer
\* names registered in one stage are pairwise distinct.
C12_NamesPairwiseDistinct ==
    NetBuilt /\ obj.status = "ok" =>
        /\ PairwiseDistinct(NetLeaves(obj))
        /\ \A L \in {obj.layer1, obj.layer2, obj.layer3, obj.layer4} :
              PairwiseDistinct(StageLeaves(L)) /\ StageNamesDistinct(L)

\* a built network with the exported depths, whose block names have grown
\* by repeated appending, with the deep stem and the pooled shortcut
C12_Witness ==
    /\ NetBuilt /\ obj.status = "ok"
    /\ cfg.args.layers = <<3, 4, 6, 3>>
    /\ cfg.args.deep_stem /\ cfg.args.avg_down /\ cfg.args.radix = 2
    /\ obj.layer1.sublayers[3].name = "layer1_bottleneck_1_bottleneck_2"
    /\ "layer3_bottleneck_1_bottleneck_2_bottleneck_3_bottleneck_4_bottleneck_5_splatconv_splat_weights"
           \in NamesOf(NetLeaves(obj))
    /\ "layer1_bottleneck_0_weights" \in NamesOf(NetLeaves(obj))

----------------------------------------------------------------------------
(* Properties of forward of a whole network (Spec, SpecExported)           *)

IsBlockStep(e) == "main" \in DOMAIN e

BlockSteps == {j \in 1..Len(trace) : IsBlockStep(trace[j])}

\* C3: in the two exported models, for dilated in {False, True}, dilation in
\* {1, 2, 4} and every input size, the main branch and the shortcut reach
\* the residual addition of each of the 16 blocks with the same channels,
\* height and width.
C3_ExportedBranchesAgree ==
    /\ pc # At("raised")
    /\ \A j \in BlockSteps : trace[j].main = trace[j].short
    /\ pc = At("done") => Cardinality(BlockSteps) = 16

\* a finished forward whose stride-2 stage pooled an odd extent above 1 on
\* both branches
C3_Witness ==
    /\ pc = At("done")
    /\ \E j \in BlockSteps :
         /\ trace[j].op = "layer3" /\ trace[j].i = 0
         /\ trace[j - 1].main.h = 5 /\ trace[j].main.h = 3
         /\ "avg_pool2d_3" \in Range(trace[j].ops)
         /\ "avg_pool2d_2" \in Range(trace[j].ops)

StageSteps(k, n) == [j \in 1..n |-> <<"layer" \o ToString(k), j - 1>>]

\* the calls of one complete forward, by the stage depths alone
ExpectedCalls(layers) ==
    <<(<<"stem", 0>>), (<<"max_pool2d", 0>>)>>
    \o StageSteps(1, layers[1]) \o StageSteps(2, layers[2])
    \o StageSteps(3, layers[3]) \o StageSteps(4, layers[4])
    \o <<(<<"pool2d_avg", 0>>), (<<"reshape", 0>>), (<<"out", 0>>)>>

Calls == [j \in 1..Len(trace) |-> <<trace[j].op, trace[j].i>>]

ForwardEnded == pc = At("done") \/ (pc = At("raised") /\ trace # <<>>)

\* C1: every forward call runs stem, max-pool, layer1..layer4 (their
\* blocks in index order), global pool, flatten and classifier, each
\* exactly once, in this order, whatever the configuration.
C1_EveryStepOnceInOrder ==
    ForwardEnded => Calls = ExpectedCalls(cfg.args.layers)

\* what does hold of every call: the calls made are a prefix of that order,
\* and a call that returns has made all of them
ForwardOrderKept ==
    /\ Len(Calls) <= Len(ExpectedCalls(cfg.args.layers))
    /\ Calls = SubSeq(ExpectedCalls(cfg.args.layers), 1, Len(Calls))
    /\ pc = At("done") => Calls = ExpectedCalls(cfg.args.layers)

----------------------------------------------------------------------------
(* Properties of the split-attention convolution (SpecSplat)               *)

Normalised == cfg.kind = "block" /\ "rsoftmax" \in Range(trace)

\* C9: for the split-attention convolution of a block with radix >= 2 the
\* reshape of rSoftmax keeps the element count: cardinality * radix *
\* int(r*h*w / cardinality / radix) = r*h*w for the attention tensor it
\* gets (r = channels * radix, h = w = 1), and rSoftmax returns r*h*w
\* values.
C9_ReshapeKeepsCount ==
    Normalised /\ cfg.args.radix >= 2 =>
        LET a == cfg.args
            r == group_width(a.planes, a.bottleneck_width, a.cardinality) * a.radix
        IN /\ x.err = ""
           /\ obj.conv2.conv3.num_filters = r
           /\ obj.conv2.rsoftmax.cardinality * obj.conv2.rsoftmax.radix * x.inner = r
           /\ Len(x.atten) = r

\* rSoftmax has run on 18 values in 2 cardinal groups of radix 3
C9_Witness ==
    /\ Normalised /\ pc = At("gate")
    /\ cfg.args.radix = 3 /\ cfg.args.cardinality = 2
    /\ x.inner = 3 /\ Len(x.atten) = 18

Gated == cfg.kind = "block" /\ "sums" \in Range(trace) /\ pc = At("done")

\* the weights that gate channel j, one per split
GatesOf(j) == {x.attens[k][j] : k \in 1..Len(x.attens)}

\* C4: with radix > 1 rSoftmax is a bijection on the channels*radix
\* attention positions; the radix weights gating channel j of the splits
\* are exactly the members of one normalisation group, all of channel j's
\* cardinal group and within-group channel; split k is multiplied by chunk
\* k and by no other, every chunk once.  With radix = 1 every channel of
\* conv1's output is gated by its own sigmoid weight.
C4_WeightsMeetTheirSplits ==
    /\ "sums" \in Range(trace) => pc = At("done")
    /\ Gated =>
        LET radix == cfg.args.radix
            ch == group_width(cfg.args.planes, cfg.args.bottleneck_width, cfg.args.cardinality)
            inner == ch \div cfg.args.cardinality
        IN /\ Len(x.x) = ch * radix /\ Len(x.atten) = ch * radix
           /\ {x.atten[q].pos : q \in 1..Len(x.atten)} = 1..(ch * radix)
           /\ Len(x.y) = ch
           /\ Len(x.attens) = radix /\ Len(x.splited) = radix
           /\ \A j \in 1..ch :
                /\ {w.pos : w \in GatesOf(j)} = x.attens[1][j].over
                /\ \A w \in GatesOf(j) : w.over = x.attens[1][j].over
                /\ Cardinality({w.pos : w \in GatesOf(j)}) = radix
                /\ \A w \in GatesOf(j) :
                      /\ w.group = (j - 1) \div inner
                      /\ (w.pos - 1) % inner = (j - 1) % inner
                /\ x.y[j] = {[att |-> x.atten[(k - 1) * ch + j], chunk |-> k,
                              feat |-> x.x[(k - 1) * ch + j]] : k \in 1..radix}
                /\ Cardinality(x.y[j]) = radix
                /\ radix = 1 => x.y[j] = {[att |-> [pos |-> j, over |-> {j},
                                                    group |-> (j - 1) \div inner],
                                           chunk |-> 1, feat |-> j]}

\* a gated tensor of 2 cardinal groups of 2 channels, radix 2
C4_Witness ==
    /\ Gated
    /\ cfg.args.radix = 2 /\ cfg.args.cardinality = 2
    /\ Len(x.y) = 4
    /\ x.attens[2][3].pos = 7 /\ x.attens[1][3].pos = 5

=============================================================================
